---------------------------- MODULE Spec2Model ----------------------------
(***************************************************************************)
(* State-machine model of src/src/index.ts: the ISS status poster.         *)
(*                                                                         *)
(* One process run: the module is evaluated (MAP_URL is resolved, main()   *)
(* is called and issues the telemetry GET), then every await in main and   *)
(* in the functions it calls is one step whose outcome the environment     *)
(* (remote endpoint, file system, timer) chooses.                          *)
(*                                                                         *)
(* Time is in whole seconds since 1970-01-01T00:00:00Z.  Strings that the  *)
(* program builds are sequences of tokens (single characters for the       *)
(* formatted values, whole literals for the fixed text), so formatting,    *)
(* splitting and replacing are computed rather than assumed.  Non-ASCII    *)
(* characters of the literals are written in ASCII.                        *)
(***************************************************************************)
EXTENDS Integers, Sequences, FiniteSets, TLC

VARIABLES
    tz,         \* the host's time zone (process environment)
    clock,      \* the wall clock, seconds since the epoch (UTC instant)
    pc,         \* where the run is: which await is pending, or "exited"
    MAP_URL,    \* const MAP_URL (line 50)
    issData,    \* main's issData (line 124)
    imagePath,  \* main's imagePath (line 126)
    message,    \* main's message (line 128)
    calls,      \* number of requests issued to each remote endpoint
    error,      \* the error caught by main (line 132)
    exitCode,   \* the process's exit status
    timeout,    \* the timeout option of the pending axios request, 0: none
    trace       \* history: stage events in the order they happened

vars == <<tz, clock, pc, MAP_URL, issData, imagePath, message, calls, error,
          exitCode, timeout, trace>>

---------------------------------------------------------------------------
(* Bounds of the model                                                     *)

\* A response arrives 0..MaxLatency seconds after its request was issued.
MaxLatency == 2

(* Program constants                                                       *)

\* axios.get(ISS_API_URL, { timeout: 5000 })
TelemetryTimeoutSec == 5
\* axios.get(url, { ..., timeout: 20000 })
ImageryTimeoutSec == 20

---------------------------------------------------------------------------
(* ECMAScript Date arithmetic (time values in seconds)                     *)

SecPerDay == 24 * 60 * 60
SecPerHour == 60 * 60

Day(t) == t \div SecPerDay
TimeWithinDay(t) == t % SecPerDay

DaysInYear(y) ==
    IF y % 4 # 0 THEN 365
    ELSE IF y % 100 # 0 THEN 366
    ELSE IF y % 400 # 0 THEN 365
    ELSE 366

DayFromYear(y) ==
    365 * (y - 1970) + ((y - 1969) \div 4) - ((y - 1901) \div 100)
        + ((y - 1601) \div 400)

\* The civil fields of day number n, by the definitions of YearFromTime,
\* InLeapYear, DayWithinYear, MonthFromTime (0 = January) and DateFromTime
CivilFromDay(n) ==
    LET y == CHOOSE y \in 1999..2025 :
                 DayFromYear(y) <= n /\ n < DayFromYear(y + 1)
        l == IF DaysInYear(y) = 366 THEN 1 ELSE 0
        d == n - DayFromYear(y)
        m == IF d < 31 THEN 0
             ELSE IF d < 59 + l THEN 1
             ELSE IF d < 90 + l THEN 2
             ELSE IF d < 120 + l THEN 3
             ELSE IF d < 151 + l THEN 4
             ELSE IF d < 181 + l THEN 5
             ELSE IF d < 212 + l THEN 6
             ELSE IF d < 243 + l THEN 7
             ELSE IF d < 273 + l THEN 8
             ELSE IF d < 304 + l THEN 9
             ELSE IF d < 334 + l THEN 10
             ELSE 11
        date == IF m = 0 THEN d + 1
                ELSE IF m = 1 THEN d - 30
                ELSE IF m = 2 THEN d - 58 - l
                ELSE IF m = 3 THEN d - 89 - l
                ELSE IF m = 4 THEN d - 119 - l
                ELSE IF m = 5 THEN d - 150 - l
                ELSE IF m = 6 THEN d - 180 - l
                ELSE IF m = 7 THEN d - 211 - l
                ELSE IF m = 8 THEN d - 242 - l
                ELSE IF m = 9 THEN d - 272 - l
                ELSE IF m = 10 THEN d - 303 - l
                ELSE d - 333 - l
    IN  [year |-> y, month |-> m, date |-> date]

YearFromTime(t) == CivilFromDay(Day(t)).year
MonthFromTime(t) == CivilFromDay(Day(t)).month
DateFromTime(t) == CivilFromDay(Day(t)).date

\* 0 = Sunday ... 6 = Saturday
WeekDay(t) == (Day(t) + 4) % 7

\* Days before the first of month m (0..11) in a year that is leap (l = 1) or not
DaysBeforeMonth(m, l) ==
    IF m = 0 THEN 0
    ELSE IF m = 1 THEN 31
    ELSE <<59, 90, 120, 151, 181, 212, 243, 273, 304, 334>>[m - 1] + l

\* MakeDay(year, month, date): the day number of year-month-01, plus date - 1
MakeDay(year, month, date) ==
    LET ym == year + (month \div 12)
        mn == month % 12
        l  == IF DaysInYear(ym) = 366 THEN 1 ELSE 0
    IN  DayFromYear(ym) + DaysBeforeMonth(mn, l) + date - 1

MakeDate(day, time) == day * SecPerDay + time

\* A UTC instant from its civil fields
Instant(y, mo, d, h, mi, s) ==
    MakeDate(MakeDay(y, mo - 1, d), h * SecPerHour + mi * 60 + s)

\* The days the process may be started on: around the turn of a year, the
\* end of February in leap and common years (2000 included), the two US
\* daylight-saving transitions of 2024, and a midsummer weekend
RunDays ==
    { Instant(2024, 1, 1, 0, 0, 0),
      Instant(2024, 3, 1, 0, 0, 0),
      Instant(2023, 3, 1, 0, 0, 0),
      Instant(2000, 3, 1, 0, 0, 0),
      Instant(2024, 3, 11, 0, 0, 0),
      Instant(2024, 11, 4, 0, 0, 0),
      Instant(2024, 6, 15, 0, 0, 0) }

---------------------------------------------------------------------------
(* Host time zones                                                         *)

TimeZones == {"UTC", "Asia/Colombo", "America/New_York"}

\* US daylight saving time of 2024: 2024-03-10T07:00:00Z to 2024-11-03T06:00:00Z
DstStartUTC == Instant(2024, 3, 10, 7, 0, 0)
DstEndUTC == Instant(2024, 11, 3, 6, 0, 0)

\* LocalTZA(t, isUTC): the zone's offset at UTC instant t (isUTC), or at local
\* time t (~isUTC, where a skipped or repeated local time takes the offset in
\* force before the transition)
LocalTZA(zone, t, isUTC) ==
    IF zone = "UTC" THEN 0
    ELSE IF zone = "Asia/Colombo" THEN 5 * SecPerHour + 30 * 60
    ELSE LET std == -5 * SecPerHour
             dst == -4 * SecPerHour
         IN  IF isUTC
             THEN IF DstStartUTC <= t /\ t < DstEndUTC THEN dst ELSE std
             ELSE IF DstStartUTC + dst <= t /\ t < DstEndUTC + dst
                  THEN dst ELSE std

LocalTime(zone, t) == t + LocalTZA(zone, t, TRUE)
UTC(zone, t) == t - LocalTZA(zone, t, FALSE)

\* Date.prototype.getDate
getDate(zone, tv) == DateFromTime(LocalTime(zone, tv))

\* Date.prototype.setDate(dt): the new time value
setDate(zone, tv, dt) ==
    LET t == LocalTime(zone, tv)
        newDate == MakeDate(MakeDay(YearFromTime(t), MonthFromTime(t), dt),
                            TimeWithinDay(t))
    IN  UTC(zone, newDate)

---------------------------------------------------------------------------
(* Strings                                                                 *)

Digit(n) == <<"0", "1", "2", "3", "4", "5", "6", "7", "8", "9">>[n + 1]

RECURSIVE IntToChars(_)
IntToChars(n) ==
    IF n < 10 THEN <<Digit(n)>>
    ELSE IntToChars(n \div 10) \o <<Digit(n % 10)>>

RECURSIVE PadStart(_, _)
PadStart(s, w) == IF Len(s) >= w THEN s ELSE PadStart(<<"0">> \o s, w)

\* Date.prototype.toISOString: YYYY-MM-DDTHH:mm:ss.sssZ
toISOString(tv) ==
    LET tod == TimeWithinDay(tv)
    IN  PadStart(IntToChars(YearFromTime(tv)), 4) \o <<"-">>
        \o PadStart(IntToChars(MonthFromTime(tv) + 1), 2) \o <<"-">>
        \o PadStart(IntToChars(DateFromTime(tv)), 2) \o <<"T">>
        \o PadStart(IntToChars(tod \div SecPerHour), 2) \o <<":">>
        \o PadStart(IntToChars((tod % SecPerHour) \div 60), 2) \o <<":">>
        \o PadStart(IntToChars(tod % 60), 2) \o <<".", "0", "0", "0", "Z">>

\* Index of the first occurrence of token c in s, 0 when there is none
IndexOf(s, c) ==
    IF \E i \in 1..Len(s) : s[i] = c
    THEN CHOOSE i \in 1..Len(s) : s[i] = c /\ \A j \in 1..(i - 1) : s[j] # c
    ELSE 0

\* s.split(c)[0]
SplitFirst(s, c) ==
    IF IndexOf(s, c) = 0 THEN s ELSE SubSeq(s, 1, IndexOf(s, c) - 1)

\* s.replace(c, r): the first occurrence only
Replace(s, c, r) ==
    LET i == IndexOf(s, c)
    IN  IF i = 0 THEN s
        ELSE SubSeq(s, 1, i - 1) \o r \o SubSeq(s, i + 1, Len(s))

\* Number.prototype.toFixed(f) of x / 1000, for f <= 3
toFixed(x, f) ==
    LET a == IF x < 0 THEN -x ELSE x
        scale == IF f = 0 THEN 1000 ELSE IF f = 1 THEN 100
                 ELSE IF f = 2 THEN 10 ELSE 1
        n == (a + (scale \div 2)) \div scale
        m == PadStart(IntToChars(n), f + 1)
        k == Len(m) - f
        body == IF f = 0 THEN m
                ELSE SubSeq(m, 1, k) \o <<".">> \o SubSeq(m, k + 1, Len(m))
    IN  (IF x < 0 THEN <<"-">> ELSE <<>>) \o body

---------------------------------------------------------------------------
(* JavaScript values of the telemetry payload                              *)

Num(n) == [t |-> "number", num |-> n, str |-> ""]
Str(x) == [t |-> "string", num |-> 0, str |-> x]
Undefined == [t |-> "undefined", num |-> 0, str |-> ""]
Unset == [t |-> "unset", num |-> 0, str |-> ""]

\* interface ISSData: numbers are held in thousandths
ISSData(lat, lon, alt, vel, vis) ==
    [latitude |-> lat, longitude |-> lon, altitude |-> alt, velocity |-> vel,
     visibility |-> vis]

\* main's issData before the telemetry fetch has returned
NoData == ISSData(Unset, Unset, Unset, Unset, Unset)

\* Bodies the telemetry endpoint can answer a 2xx response with
Payloads ==
    { ISSData(Num(45123), Num(-122456), Num(408700), Num(27600300), Str("daylight")),
      ISSData(Num(-51644), Num(179995), Num(417499), Num(27580500), Str("eclipsed")),
      ISSData(Num(45123), Num(-122456), Num(408700), Num(27600300), Str("Daylight")),
      ISSData(Num(45123), Num(-122456), Num(408700), Num(27600300), Undefined),
      ISSData(Undefined, Num(-122456), Num(408700), Num(27600300), Str("daylight")),
      ISSData(Num(45123), Num(-122456), Str("408.7"), Num(27600300), Str("eclipsed")),
      ISSData(Undefined, Undefined, Undefined, Undefined, Undefined) }

\* The payload has the shape of interface ISSData (lines 17-23)
WellFormed(data) ==
    /\ \A f \in {"latitude", "longitude", "altitude", "velocity"} :
           data[f].t = "number"
    /\ data.visibility.t = "string"

---------------------------------------------------------------------------
(* getMapUrl and MAP_URL (lines 43-50)                                     *)

\* A URL: its query parameters in order
NoUrl == [params |-> <<>>]

getMapUrl(zone, now) ==
    LET yesterday == setDate(zone, now, getDate(zone, now) - 1)
        date == SplitFirst(toISOString(yesterday), "T")
    IN  [params |->
           << <<"SERVICE", <<"WMS">> >>,
              <<"REQUEST", <<"GetMap">> >>,
              <<"VERSION", <<"1.3.0">> >>,
              <<"LAYERS", <<"MODIS_Terra_CorrectedReflectance_TrueColor">> >>,
              <<"CRS", <<"EPSG:4326">> >>,
              <<"STYLES", <<>> >>,
              <<"FORMAT", <<"image/jpeg">> >>,
              <<"TIME", date>>,
              <<"BBOX", <<"-180,-90,180,90">> >>,
              <<"WIDTH", <<"4096">> >>,
              <<"HEIGHT", <<"2048">> >> >>]

\* new URL(u).searchParams.get(key) ?? 'unknown'
searchParamsGet(u, key) ==
    IF \E i \in 1..Len(u.params) : u.params[i][1] = key
    THEN LET i == CHOOSE i \in 1..Len(u.params) :
                      /\ u.params[i][1] = key
                      /\ \A j \in 1..(i - 1) : u.params[j][1] # key
         IN  u.params[i][2]
    ELSE <<"unknown">>

---------------------------------------------------------------------------
(* createPostMessage (lines 66-100)                                        *)

WeekdayNames ==
    <<"Sunday", "Monday", "Tuesday", "Wednesday", "Thursday", "Friday",
      "Saturday">>

\* Fault variant of formatWeekday: the weekday in UTC, as with timeZone: 'UTC'
formatWeekday_UTC(zone, d) == WeekdayNames[WeekDay(d) + 1]

\* new Intl.DateTimeFormat('en-US', { weekday: 'long' }).format(d): the
\* weekday of d in the host's time zone
formatWeekday(zone, d) == WeekdayNames[WeekDay(LocalTime(zone, d)) + 1]

\* line 68
utcStamp(now) ==
    Replace(Replace(toISOString(now), "T", <<" ">>), "Z", <<" UTC">>)

\* Fault variant of light: only the literal 'eclipsed' selects the shadow phrase
light_ShadowOnlyWhenEclipsed(visibility) ==
    IF visibility # Str("eclipsed")
    THEN <<"bathed in sunlight">>
    ELSE <<"passing through Earth's shadow">>

\* line 82
light(visibility) ==
    IF visibility = Str("daylight")
    THEN <<"bathed in sunlight">>
    ELSE <<"passing through Earth's shadow">>

\* lines 79-84
baseInfo(data) ==
    LET coords == toFixed(data.latitude.num, 2) \o <<"degN, ">>
                  \o toFixed(data.longitude.num, 2) \o <<"degE">>
        alt == toFixed(data.altitude.num, 0) \o <<" km">>
        speed == toFixed(data.velocity.num, 0) \o <<" km/h">>
    IN  <<"I'm over ">> \o coords \o <<" at ~">> \o alt \o <<", moving ">>
        \o speed \o <<". Currently ">> \o light(data.visibility) \o <<".">>

\* line 85
imageNote(mapTime) ==
    <<"View: NASA GIBS MODIS Terra True Color (TIME=">> \o mapTime \o <<")">>

Greeting == <<"Hi from the ISS -- ">>
Suffix == <<" (ISS = International Space Station) #ISS #Space #NASA">>

\* lines 89-97: the table of weekday messages
messages(utc, base, note) ==
    [ Sunday |->
        Greeting \o utc \o <<". ">> \o base
        \o <<" Taking a breather and enjoying the view. ">> \o note \o Suffix,
      Monday |->
        Greeting \o utc \o <<". ">> \o base
        \o <<" Kicked off the week with a research run. Here's the scene below. ">>
        \o note \o Suffix,
      Tuesday |->
        Greeting \o utc \o <<". ">> \o base
        \o <<" Running experiments and watching the sunrise sweep across continents. ">>
        \o note \o Suffix,
      Wednesday |->
        Greeting \o utc \o <<". ">> \o base
        \o <<" Midweek check-in from orbit -- science, maintenance, and sweeping views. ">>
        \o note \o Suffix,
      Thursday |->
        Greeting \o utc \o <<". ">> \o base
        \o <<" Preparing gear and sharing this snapshot from above. ">>
        \o note \o Suffix,
      Friday |->
        Greeting \o utc \o <<". ">> \o base
        \o <<" Wrapping up a busy week onboard -- enjoy this view. ">>
        \o note \o Suffix,
      Saturday |->
        Greeting \o utc \o <<". ">> \o base
        \o <<" Weekend vibes above Earth -- peaceful and busy all at once. ">>
        \o note \o Suffix ]

\* line 99, right of ??: the generic message
genericMessage(utc, base, note) ==
    Greeting \o utc \o <<". ">> \o base \o <<" ">> \o note \o Suffix

\* data.<field>.toFixed(...) throws a TypeError unless the field is a number
createPostMessageThrows(data) ==
    \E f \in {"latitude", "longitude", "altitude", "velocity"} :
        data[f].t # "number"

\* The TypeError's message: the first field read that is not a number
typeErrorOf(data) ==
    LET order == <<"latitude", "longitude", "altitude", "velocity">>
        i == CHOOSE i \in 1..4 :
                 /\ data[order[i]].t # "number"
                 /\ \A j \in 1..(i - 1) : data[order[j]].t = "number"
    IN  IF data[order[i]].t = "undefined"
        THEN <<"Cannot read properties of undefined (reading 'toFixed')">>
        ELSE <<"data.", order[i], ".toFixed is not a function">>

\* The returned string, for data on which nothing throws
createPostMessage(zone, now, mapUrl, data) ==
    LET utc == utcStamp(now)
        mapTime == searchParamsGet(mapUrl, "TIME")
        base == baseInfo(data)
        note == imageNote(mapTime)
        weekday == formatWeekday(zone, now)
        table == messages(utc, base, note)
    IN  IF weekday \in DOMAIN table
        THEN table[weekday]
        ELSE genericMessage(utc, base, note)

---------------------------------------------------------------------------
(* The run                                                                 *)

NoMessage == <<>>
NoError == <<>>

\* Times of day, relative to 00:00:00Z: the last second of the day before,
\* midnight, half past midnight, noon
RunOffsets == {-1, 0, 30 * 60, 12 * SecPerHour}

RunInstants == {d + o : d \in RunDays, o \in RunOffsets}

\* How long a response may take that arrives before a timeout of limit seconds
Latencies(limit) == {d \in 0..MaxLatency : d < limit}

\* Causes with which axios rejects other than its timeout
TransportCauses == {"Network Error", "Request failed with status code 500"}
\* Causes with which fs.writeFile / fs.readFile reject
FsCauses == {"EACCES: permission denied, open 'nasa-map.jpg'"}

Init ==
    /\ tz \in TimeZones
    /\ clock \in RunInstants
    /\ pc = "load"
    /\ MAP_URL = NoUrl
    /\ issData = NoData
    /\ imagePath = ""
    /\ message = NoMessage
    /\ calls = [telemetry |-> 0, imagery |-> 0, publish |-> 0]
    /\ error = NoError
    /\ exitCode = 0
    /\ timeout = 0
    /\ trace = <<>>

\* Fault variant of mainCatch: the error is logged and process.exit(1) is missing
mainCatch_NoExit(err) ==
    /\ error' = err
    /\ exitCode' = 0
    /\ pc' = "exited"

\* main's catch (lines 132-135): console.error, process.exit(1)
mainCatch(err) ==
    /\ error' = err
    /\ exitCode' = 1
    /\ pc' = "exited"

\* fetchISSData's catch (lines 33-35) rethrows with its prefix; main catches
fetchISSDataCatch(cause) ==
    /\ mainCatch(<<"Failed to fetch ISS data: ", cause>>)
    /\ trace' = Append(trace, "telemetry.fail")
    /\ timeout' = 0
    /\ UNCHANGED <<tz, MAP_URL, issData, imagePath, message, calls>>

\* postToFacebook's catch (lines 116-118) rethrows with its prefix; main catches
postToFacebookCatch(cause) ==
    /\ mainCatch(<<"Facebook post failed: ", cause>>)
    /\ trace' = Append(trace, "publish.fail")
    /\ timeout' = 0
    /\ UNCHANGED <<tz, MAP_URL, issData, imagePath, message, calls>>

\* fetchMapImage has no catch: what axios or fs threw reaches main as it is
fetchMapImageThrows(cause) ==
    /\ mainCatch(<<cause>>)
    /\ trace' = Append(trace, "imagery.fail")
    /\ timeout' = 0
    /\ UNCHANGED <<tz, MAP_URL, issData, imagePath, message, calls>>

\* Fault variant of ModuleLoad: main is called first and the URL is resolved
\* only after the telemetry GET was issued
ModuleLoad_MainFirst ==
    /\ pc = "load"
    /\ MAP_URL' = getMapUrl(tz, clock)
    /\ calls' = [calls EXCEPT !.telemetry = @ + 1]
    /\ timeout' = TelemetryTimeoutSec
    /\ trace' = <<"telemetry.start", "resolve">>
    /\ pc' = "awaitTelemetry"
    /\ UNCHANGED <<tz, clock, issData, imagePath, message, error, exitCode>>

\* Evaluation of the module: line 50 resolves MAP_URL, line 138 calls main,
\* which runs to its first await: the telemetry GET of line 31 is issued
ModuleLoad ==
    /\ pc = "load"
    /\ MAP_URL' = getMapUrl(tz, clock)
    /\ calls' = [calls EXCEPT !.telemetry = @ + 1]
    /\ timeout' = TelemetryTimeoutSec
    /\ trace' = <<"resolve", "telemetry.start">>
    /\ pc' = "awaitTelemetry"
    /\ UNCHANGED <<tz, clock, issData, imagePath, message, error, exitCode>>

\* The telemetry GET resolves with a 2xx response: fetchISSData returns
\* response.data as it is (line 32); main calls fetchMapImage(MAP_URL), which
\* issues the imagery GET (line 60)
TelemetryResolve(data, d) ==
    /\ pc = "awaitTelemetry"
    /\ d \in Latencies(timeout)
    /\ clock' = clock + d
    /\ issData' = data
    /\ calls' = [calls EXCEPT !.imagery = @ + 1]
    /\ timeout' = ImageryTimeoutSec
    /\ trace' = trace \o <<"telemetry.ok", "imagery.start">>
    /\ pc' = "awaitImagery"
    /\ UNCHANGED <<tz, MAP_URL, imagePath, message, error, exitCode>>

\* Fault variant of TelemetryReject: the failure is recorded and main goes on
\* to the imagery download
TelemetryReject_Continue(cause, d) ==
    /\ pc = "awaitTelemetry"
    /\ d \in Latencies(timeout)
    /\ clock' = clock + d
    /\ error' = <<"Failed to fetch ISS data: ", cause>>
    /\ calls' = [calls EXCEPT !.imagery = @ + 1]
    /\ timeout' = ImageryTimeoutSec
    /\ trace' = trace \o <<"telemetry.fail", "imagery.start">>
    /\ pc' = "awaitImagery"
    /\ UNCHANGED <<tz, MAP_URL, issData, imagePath, message, exitCode>>

\* The telemetry GET rejects: a transport failure or a non-2xx status
TelemetryReject(cause, d) ==
    /\ pc = "awaitTelemetry"
    /\ d \in Latencies(timeout)
    /\ clock' = clock + d
    /\ fetchISSDataCatch(cause)

\* No answer within timeout: 5000
TelemetryTimeout ==
    /\ pc = "awaitTelemetry"
    /\ timeout > 0
    /\ clock' = clock + timeout
    /\ fetchISSDataCatch("timeout of 5000ms exceeded")

\* The imagery GET resolves: fs.writeFile is issued (line 62)
ImageryResolve(d) ==
    /\ pc = "awaitImagery"
    /\ d \in Latencies(timeout)
    /\ clock' = clock + d
    /\ timeout' = 0
    /\ pc' = "awaitWrite"
    /\ UNCHANGED <<tz, MAP_URL, issData, imagePath, message, calls, error,
                   exitCode, trace>>

ImageryReject(cause, d) ==
    /\ pc = "awaitImagery"
    /\ d \in Latencies(timeout)
    /\ clock' = clock + d
    /\ fetchMapImageThrows(cause)

\* No answer within timeout: 20000
ImageryTimeout ==
    /\ pc = "awaitImagery"
    /\ timeout > 0
    /\ clock' = clock + timeout
    /\ fetchMapImageThrows("timeout of 20000ms exceeded")

\* fs.writeFile resolves: fetchMapImage returns imagePath; main calls
\* createPostMessage(issData), then postToFacebook, which issues fs.readFile
\* (line 109)
WriteFileResolve ==
    /\ pc = "awaitWrite"
    /\ imagePath' = "nasa-map.jpg"
    /\ IF createPostMessageThrows(issData)
       THEN /\ mainCatch(typeErrorOf(issData))
            /\ trace' = trace \o <<"imagery.ok", "compose.fail">>
            /\ UNCHANGED message
       ELSE /\ message' = createPostMessage(tz, clock, MAP_URL, issData)
            /\ trace' = trace \o <<"imagery.ok", "compose.ok", "publish.start">>
            /\ pc' = "awaitRead"
            /\ UNCHANGED <<error, exitCode>>
    /\ UNCHANGED <<tz, clock, MAP_URL, issData, calls, timeout>>

WriteFileReject(cause) ==
    /\ pc = "awaitWrite"
    /\ fetchMapImageThrows(cause)
    /\ UNCHANGED clock

\* fs.readFile resolves: the POST of lines 112-114 is issued; its config has
\* headers only, so axios' default applies: timeout 0, no timeout
ReadFileResolve ==
    /\ pc = "awaitRead"
    /\ calls' = [calls EXCEPT !.publish = @ + 1]
    /\ timeout' = 0
    /\ pc' = "awaitPublish"
    /\ UNCHANGED <<tz, clock, MAP_URL, issData, imagePath, message, error,
                   exitCode, trace>>

ReadFileReject(cause) ==
    /\ pc = "awaitRead"
    /\ postToFacebookCatch(cause)
    /\ UNCHANGED clock

\* The POST resolves: main returns and the process ends normally
PublishResolve(d) ==
    /\ pc = "awaitPublish"
    /\ d \in 0..MaxLatency
    /\ clock' = clock + d
    /\ trace' = Append(trace, "publish.ok")
    /\ pc' = "exited"
    /\ UNCHANGED <<tz, MAP_URL, issData, imagePath, message, calls, error,
                   exitCode, timeout>>

\* Fault variant of PublishReject: the POST is sent again after a failure
PublishReject_Retry(cause, d) ==
    /\ pc = "awaitPublish"
    /\ d \in 0..MaxLatency
    /\ clock' = clock + d
    /\ calls' = [calls EXCEPT !.publish = @ + 1]
    /\ UNCHANGED <<tz, pc, MAP_URL, issData, imagePath, message, error,
                   exitCode, timeout, trace>>

\* The POST rejects.  With no timeout armed there is no timer step for this
\* await: it ends only when the remote side answers or the connection fails
PublishReject(cause, d) ==
    /\ pc = "awaitPublish"
    /\ d \in 0..MaxLatency
    /\ clock' = clock + d
    /\ postToFacebookCatch(cause)

TelemetryEnds ==
    \/ \E data \in Payloads, d \in 0..MaxLatency : TelemetryResolve(data, d)
    \/ \E cause \in TransportCauses, d \in 0..MaxLatency : TelemetryReject(cause, d)
    \/ TelemetryTimeout

ImageryEnds ==
    \/ \E d \in 0..MaxLatency : ImageryResolve(d)
    \/ \E cause \in TransportCauses, d \in 0..MaxLatency : ImageryReject(cause, d)
    \/ ImageryTimeout

WriteFileEnds ==
    \/ WriteFileResolve
    \/ \E cause \in FsCauses : WriteFileReject(cause)

ReadFileEnds ==
    \/ ReadFileResolve
    \/ \E cause \in FsCauses : ReadFileReject(cause)

PublishEnds ==
    \/ \E d \in 0..MaxLatency : PublishResolve(d)
    \/ \E cause \in TransportCauses, d \in 0..MaxLatency : PublishReject(cause, d)

Next ==
    \/ ModuleLoad
    \/ TelemetryEnds
    \/ ImageryEnds
    \/ WriteFileEnds
    \/ ReadFileEnds
    \/ PublishEnds

Spec == Init /\ [][Next]_vars

---------------------------------------------------------------------------
(* Properties                                                              *)

\* The stage event ev has happened
Has(ev) == \E i \in 1..Len(trace) : trace[i] = ev

\* sub occurs in s as a contiguous run of tokens
Contains(s, sub) ==
    \E i \in 0..(Len(s) - Len(sub)) : SubSeq(s, i + 1, i + Len(sub)) = sub

FailEvents == {"telemetry.fail", "imagery.fail", "compose.fail", "publish.fail"}

Failed == \E i \in 1..Len(trace) : trace[i] \in FailEvents

\* The events of a run in which every stage succeeds, in the code's order
StageOrder ==
    <<"resolve", "telemetry.start", "telemetry.ok", "imagery.start",
      "imagery.ok", "compose.ok", "publish.start", "publish.ok">>

\* The event that ends the run when the stage awaited at position i fails
FailureAt(i) ==
    IF i = 3 THEN "telemetry.fail"
    ELSE IF i = 5 THEN "imagery.fail"
    ELSE IF i = 6 THEN "compose.fail"
    ELSE IF i = 8 THEN "publish.fail"
    ELSE "none"

\* The calendar date of day number n (days since the epoch) as YYYY-MM-DD
IsoDateOfDay(n) == SplitFirst(toISOString(n * SecPerDay), "T")

(* C1: when a stage fails no later stage is invoked: after a failed        *)
(* telemetry fetch neither the imagery download nor the publish call is    *)
(* issued, and after a failed imagery download the publish call is not     *)
(* issued.                                                                 *)
C1_FailureStopsLaterStages ==
    /\ Has("telemetry.fail") =>
           /\ calls.imagery = 0 /\ calls.publish = 0
           /\ ~Has("imagery.start") /\ ~Has("publish.start")
    /\ Has("imagery.fail") =>
           /\ calls.publish = 0
           /\ ~Has("publish.start")

\* The imagery download failed after a successful telemetry fetch
C1_Witness ==
    /\ pc = "exited"
    /\ Has("telemetry.ok")
    /\ Has("imagery.fail")
    /\ calls.imagery = 1

(* C2: the date in the TIME parameter of the imagery URL is the calendar   *)
(* date one day before the run's current date in UTC, for every run        *)
(* timestamp and every host time zone.                                     *)
C2_ReferenceDateIsUtcYesterday ==
    pc = "awaitTelemetry" =>
        searchParamsGet(MAP_URL, "TIME") = IsoDateOfDay(Day(clock) - 1)

(* C3, as stated: the stages happen in the order telemetry fetch, imagery  *)
(* URL resolution, imagery download, composition, publish, so the imagery  *)
(* URL is resolved only after the telemetry fetch has completed.           *)
C3_UrlResolvedAfterTelemetry ==
    MAP_URL # NoUrl => Has("telemetry.ok")

(* C3, amended: the imagery URL is resolved first, when the module is      *)
(* loaded and before the telemetry fetch is issued; then telemetry fetch,  *)
(* imagery download, message composition and publish happen strictly in    *)
(* that order, each starting only after the previous one has completed     *)
(* successfully, and a failure is the last event of its run.               *)
C3_StagesInCodeOrder ==
    /\ Len(trace) <= Len(StageOrder)
    /\ \A i \in 1..Len(trace) :
           \/ trace[i] = StageOrder[i]
           \/ i = Len(trace) /\ trace[i] = FailureAt(i)
    /\ Has("telemetry.start") => MAP_URL # NoUrl
    /\ Has("imagery.start") => issData # NoData
    /\ Has("compose.ok") => imagePath # "" /\ message # NoMessage
    /\ calls.publish > 0 => Has("publish.start")

\* A run in which every stage succeeded
C3_Witness == pc = "exited" /\ trace = StageOrder

(* C4: the process ends with a non-zero exit status if and only if some    *)
(* stage (telemetry fetch, imagery download, message composition, publish) *)
(* failed; when no stage failed every stage has succeeded and the status   *)
(* is zero.                                                                *)
C4_ExitStatusTellsFailure ==
    pc = "exited" =>
        /\ (exitCode # 0) <=> Failed
        /\ ~Failed => trace = StageOrder /\ exitCode = 0

\* Message composition threw on the snapshot and the run ended with status 1
C4_Witness ==
    /\ pc = "exited"
    /\ Has("compose.fail")
    /\ exitCode = 1

(* C5: when the telemetry endpoint answers with a malformed payload the    *)
(* telemetry fetch fails with its tagged error: the imagery download is    *)
(* not issued and composition never receives an invalid snapshot.          *)
C5_MalformedPayloadFailsFetch ==
    /\ issData # NoData => WellFormed(issData)
    /\ calls.imagery > 0 => WellFormed(issData)

(* C6: whichever remote stage fails, the error that reaches the host is    *)
(* that stage's own kind: a stage tag followed by the underlying cause.    *)
C6_ErrorsCarryStageTag ==
    /\ Has("telemetry.fail") =>
           Len(error) = 2 /\ error[1] = "Failed to fetch ISS data: "
    /\ Has("publish.fail") =>
           Len(error) = 2 /\ error[1] = "Facebook post failed: "
    /\ Has("imagery.fail") =>
           Len(error) = 2 /\ error[1] \notin TransportCauses \cup FsCauses

\* The narrative sentence of each weekday's template, Sunday first
Flourishes ==
    <<" Taking a breather and enjoying the view. ",
      " Kicked off the week with a research run. Here's the scene below. ",
      " Running experiments and watching the sunrise sweep across continents. ",
      " Midweek check-in from orbit -- science, maintenance, and sweeping views. ",
      " Preparing gear and sharing this snapshot from above. ",
      " Wrapping up a busy week onboard -- enjoy this view. ",
      " Weekend vibes above Earth -- peaceful and busy all at once. ">>

\* The message has just been composed: the clock is still the time of composition
JustComposed == pc \in {"awaitRead", "awaitPublish"}

(* C7: the message is built from the template of the weekday (in the       *)
(* host's time zone) of the time of composition, for each of the seven     *)
(* weekdays; it carries the timestamp, the position/altitude/speed         *)
(* summary with the light phrase, the imagery citation with the reference  *)
(* date and the fixed suffix; the generic template is never used for one   *)
(* of the seven weekday names.                                             *)
C7_WeekdayTemplate ==
    JustComposed =>
        LET wd == WeekDay(clock + LocalTZA(tz, clock, TRUE)) + 1
            n == Len(message)
        IN  /\ \A k \in 1..7 :
                   Contains(message, <<Flourishes[k]>>) <=> k = wd
            /\ SubSeq(message, 1, 1) = Greeting
            /\ Contains(message, utcStamp(clock) \o <<". ", "I'm over ">>)
            /\ Contains(message, baseInfo(issData) \o <<Flourishes[wd]>>)
            /\ Contains(message, <<Flourishes[wd]>>
                   \o imageNote(searchParamsGet(MAP_URL, "TIME")))
            /\ SubSeq(message, n, n) = Suffix
            /\ formatWeekday(tz, clock) \in
                   {WeekdayNames[k] : k \in 1..7}
            /\ message # genericMessage(utcStamp(clock), baseInfo(issData),
                             imageNote(searchParamsGet(MAP_URL, "TIME")))

\* Composed in a zone whose weekday differs from the UTC weekday
C7_Witness ==
    /\ JustComposed
    /\ WeekDay(clock) # WeekDay(clock + LocalTZA(tz, clock, TRUE))
    /\ Contains(message, <<Flourishes[7]>>)

(* C8: the light phrase of the composed message says sunlight exactly when *)
(* visibility is the string "daylight"; for every other value it says      *)
(* Earth's shadow.                                                         *)
C8_LightPhrase ==
    message # NoMessage =>
        LET daylight == /\ issData.visibility.t = "string"
                        /\ issData.visibility.str = "daylight"
        IN  /\ Contains(message, <<"bathed in sunlight">>) <=> daylight
            /\ Contains(message, <<"passing through Earth's shadow">>)
                   <=> ~daylight

\* A message composed from a visibility that is neither daylight nor eclipsed
C8_Witness ==
    /\ message # NoMessage
    /\ issData.visibility = Str("Daylight")
    /\ Contains(message, <<"passing through Earth's shadow">>)

(* C9: each of the three remote calls is issued at most once in a run: no  *)
(* call is repeated after a failure, and the publish request is sent at    *)
(* most once whether it succeeds or fails.                                 *)
C9_AtMostOneAttempt ==
    /\ calls.telemetry <= 1
    /\ calls.imagery <= 1
    /\ calls.publish <= 1
    /\ Failed => pc = "exited"

\* The publish request was sent once, failed, and the run is over
C9_Witness ==
    /\ pc = "exited"
    /\ Has("publish.fail")
    /\ calls.publish = 1

(* C10: every run terminates, because each of the three network calls     *)
(* either resolves or fails on a timeout: whenever a remote call is        *)
(* pending (telemetry GET, imagery GET, publish POST) a timeout is armed   *)
(* for it, so an endpoint that never answers cannot hold the run forever.  *)
C10_EveryCallTimesOut ==
    pc \in {"awaitTelemetry", "awaitImagery", "awaitPublish"} => timeout > 0

===========================================================================
